---- MODULE Spec2Model ----
(***************************************************************************)
(* Model of the tableau-looker-converter core:                             *)
(*   - the pydantic domain classes of domain/tableau_semantic.py           *)
(*     (constructors with their defaults and Literal validation),          *)
(*   - LookMLProject.all_files of domain/lookml_project.py,                *)
(*   - the entry point parse_twb_to_semantic_model of                      *)
(*     services/parser_service.py, run twice on the same bytes.            *)
(* adapters.twb_xml_parser (the reader and the mapper the entry point      *)
(* calls) is not among the sources; it is modelled from sections 4.1-4.6   *)
(* of the specification.                                                   *)
(*                                                                         *)
(* Encoding of Python values:                                              *)
(*   None of an Optional[str]      the string None                         *)
(*   None of an Optional[object]   the empty sequence NoneObj              *)
(*   an object in an Optional      the one-element sequence Some(x)        *)
(*   keyword arguments             a function from the supplied keyword    *)
(*                                 names to their values                   *)
(*   a float score                 an integer number of tenths             *)
(***************************************************************************)
EXTENDS Integers, Sequences, FiniteSets, TLC

VARIABLES
    twb_bytes,       \* the input of parse_twb_to_semantic_model (shared by the runs)
    pc,              \* pc[r]: where run r stands in parse_twb_to_semantic_model
    raw_spec,        \* raw_spec[r]: the local raw_spec of run r
    semantic_model,  \* semantic_model[r]: the local semantic_model of run r
    assembled,       \* assembled[r]: the model as the mapper returned it (history)
    result,          \* result[r]: what run r returned
    error,           \* error[r]: the exception run r ended with
    steps,           \* steps[r]: the numbered steps run r has executed (history)
    built,           \* the outcome of the last constructor call
    project,         \* a LookMLProject
    files            \* what project.all_files() returned

pvars == <<twb_bytes, pc, raw_spec, semantic_model, assembled, result, error, steps>>
dvars == <<built>>
lvars == <<project, files>>
vars == <<pvars, dvars, lvars>>

\* ------------------------------------------------------------------ bounds
MaxJoins == 2
MaxFields == 1
MaxFiles == 2
MaxScoreTenths == 12

\* --------------------------------------------------------- Python values
None == "<None>"
NoneObj == <<>>
Some(x) == <<x>>

Arg(kw, k, default) == IF k \in DOMAIN kw THEN kw[k] ELSE default

SeqsUpTo(S, n) == UNION {[1..k -> S] : k \in 0..n}

RECURSIVE SeqFlat(_)
SeqFlat(ss) == IF ss = <<>> THEN <<>> ELSE Head(ss) \o SeqFlat(Tail(ss))

Range(s) == {s[i] : i \in DOMAIN s}

\* ------------------------------------------- domain/tableau_semantic.py
ConnectionTypes == {"table", "custom_sql", "extract", "unknown"}
JoinTypes == {"inner", "left", "right", "full", "unknown"}
Roles == {"dimension", "measure", "unknown"}
Datatypes == {"string", "number", "date", "datetime", "boolean", "unknown"}
Sources == {"column", "calculation", "parameter", "unknown"}
Categories == {"simple", "lod", "table_calc", "parameter_based", "unknown"}

TableauWorkbook(id, name, description) ==
    [id |-> id, name |-> name, description |-> description]

ValidTableauConnection(kw) == Arg(kw, "type", "unknown") \in ConnectionTypes

TableauConnection(kw) ==
    [type     |-> Arg(kw, "type", "unknown"),
     dialect  |-> Arg(kw, "dialect", None),
     database |-> Arg(kw, "database", None),
     schema   |-> Arg(kw, "schema", None),
     table    |-> Arg(kw, "table", None),
     raw_sql  |-> Arg(kw, "raw_sql", None)]

TableauTable(id, name, is_primary) ==
    [id |-> id, name |-> name, database |-> None, schema |-> None,
     table |-> None, is_primary |-> is_primary]

ValidTableauJoin(kw) ==
    /\ {"id", "left_table_id", "right_table_id", "condition"} \subseteq DOMAIN kw
    /\ Arg(kw, "join_type", "unknown") \in JoinTypes

TableauJoin(kw) ==
    [id                  |-> kw["id"],
     left_table_id       |-> kw["left_table_id"],
     right_table_id      |-> kw["right_table_id"],
     join_type           |-> Arg(kw, "join_type", "unknown"),
     condition           |-> kw["condition"],
     needs_manual_review |-> Arg(kw, "needs_manual_review", FALSE)]

ValidTableauField(kw) ==
    /\ {"id", "name"} \subseteq DOMAIN kw
    /\ Arg(kw, "role", "unknown") \in Roles
    /\ Arg(kw, "datatype", "unknown") \in Datatypes
    /\ Arg(kw, "source", "unknown") \in Sources

\* A constructor that guesses "dimension" where the class defaults to "unknown".
TableauFieldGuessingRole(kw) ==
    [id             |-> kw["id"],
     name           |-> kw["name"],
     caption        |-> Arg(kw, "caption", None),
     table_id       |-> Arg(kw, "table_id", None),
     role           |-> Arg(kw, "role", "dimension"),
     datatype       |-> Arg(kw, "datatype", "unknown"),
     aggregation    |-> Arg(kw, "aggregation", None),
     source         |-> Arg(kw, "source", "unknown"),
     column_name    |-> Arg(kw, "column_name", None),
     calculation_id |-> Arg(kw, "calculation_id", None),
     is_hidden      |-> Arg(kw, "is_hidden", FALSE),
     tags           |-> Arg(kw, "tags", <<>>)]

TableauField(kw) ==
    [id             |-> kw["id"],
     name           |-> kw["name"],
     caption        |-> Arg(kw, "caption", None),
     table_id       |-> Arg(kw, "table_id", None),
     role           |-> Arg(kw, "role", "unknown"),
     datatype       |-> Arg(kw, "datatype", "unknown"),
     aggregation    |-> Arg(kw, "aggregation", None),
     source         |-> Arg(kw, "source", "unknown"),
     column_name    |-> Arg(kw, "column_name", None),
     calculation_id |-> Arg(kw, "calculation_id", None),
     is_hidden      |-> Arg(kw, "is_hidden", FALSE),
     tags           |-> Arg(kw, "tags", <<>>)]

ValidTableauCalculation(kw) ==
    /\ {"id", "name", "datasource_id", "expression"} \subseteq DOMAIN kw
    /\ Arg(kw, "datatype", "unknown") \in Datatypes
    /\ Arg(kw, "category", "unknown") \in Categories
    /\ Arg(kw, "complexity_score", 0) \in Int

TableauCalculation(kw) ==
    [id               |-> kw["id"],
     name             |-> kw["name"],
     datasource_id    |-> kw["datasource_id"],
     expression       |-> kw["expression"],
     datatype         |-> Arg(kw, "datatype", "unknown"),
     category         |-> Arg(kw, "category", "unknown"),
     complexity_score |-> Arg(kw, "complexity_score", 0)]

TableauSheet(id, name, datasource_id, used_field_ids) ==
    [id |-> id, name |-> name, datasource_id |-> datasource_id,
     used_field_ids |-> used_field_ids, filters |-> <<>>,
     visualization |-> NoneObj, description |-> None]

TableauDatasource(id, name, connection, tables, joins, fields) ==
    [id |-> id, name |-> name, connection |-> connection,
     tables |-> tables, joins |-> joins, fields |-> fields]

\* workbook is declared required and not Optional (line 172): the validating
\* constructor rejects None. A model object can still hold workbook None (built
\* without validation, or assigned: the class does not validate assignments),
\* which is the case line 26 of parser_service.py tests for.
ValidTableauSemanticModel(workbook) == workbook # NoneObj

TableauSemanticModel(workbook, datasources, calculations, sheets) ==
    [schema_version |-> "1.0", workbook |-> workbook,
     datasources |-> datasources, calculations |-> calculations,
     sheets |-> sheets]

\* ------------------------------------- adapters.twb_xml_parser (sections 4.1-4.6)
\* The bytes of a document are modelled by whether they are well-formed markup
\* and by the tree they encode.
MalformedDocumentError == "MalformedDocumentError"

ReaderFails(bytes) == ~bytes.wellformed

parse_twb_xml_to_raw_spec(bytes) == bytes.tree

\* 4.2: the connection of a datasource node.
ConnectionOf(node) ==
    IF node.sql # None
    THEN TableauConnection(("type" :> "custom_sql") @@ ("raw_sql" :> node.sql))
    ELSE IF node.table # None
    THEN TableauConnection(("type" :> "table") @@ ("table" :> node.table))
    ELSE IF node.extract
    THEN TableauConnection("type" :> "extract")
    ELSE TableauConnection("type" :> "unknown")

\* 4.2: one Table per declared relation; the connection's own table is primary.
TablesOf(ds) ==
    [i \in DOMAIN ds.relations |->
        TableauTable(ds.relations[i], ds.relations[i],
                     /\ ds.connection.sql = None
                     /\ ds.connection.table = ds.relations[i])]

\* 4.3: a condition is a token sequence; the single-equality pattern is
\* column = column.
ColumnTokens == {"[l.k]", "[r.k]", "[l.j]", "[r.j]"}

IsSingleEquality(cond) ==
    /\ Len(cond) = 3
    /\ cond[1] \in ColumnTokens
    /\ cond[2] = "="
    /\ cond[3] \in ColumnTokens

RecognizedJoinKinds == {"inner", "left", "right", "full"}

NeedsManualReview(node, tableIds) ==
    \/ ~IsSingleEquality(node.condition)
    \/ node.left \notin tableIds
    \/ node.right \notin tableIds

JoinOf(node, tableIds) ==
    TableauJoin(
        ("id" :> node.id) @@ ("left_table_id" :> node.left)
        @@ ("right_table_id" :> node.right)
        @@ ("join_type" :> (IF node.kind \in RecognizedJoinKinds
                            THEN node.kind ELSE "unknown"))
        @@ ("condition" :> node.condition)
        @@ ("needs_manual_review" :> NeedsManualReview(node, tableIds)))

JoinsOf(ds) ==
    [i \in DOMAIN ds.joins |-> JoinOf(ds.joins[i], Range(ds.relations))]

\* 4.4 step 2: the declared type attribute of a field node.
DatatypeOf(type_attr) ==
    CASE type_attr = "string" -> "string"
      [] type_attr \in {"integer", "real"} -> "number"
      [] type_attr = "date" -> "date"
      [] type_attr = "datetime" -> "datetime"
      [] type_attr = "boolean" -> "boolean"
      [] OTHER -> "unknown"

\* 4.4 steps 1-3 and the failure policy: a node that cannot be parsed yields a
\* field with nothing but its identity; the role keyword is passed only when
\* a signal is present.
FieldKwargs(node) ==
    LET ident == ("id" :> node.id) @@ ("name" :> node.name)
        role == IF node.aggregation # None
                THEN ("role" :> "measure") @@ ("aggregation" :> node.aggregation)
                ELSE IF node.dim_marker THEN ("role" :> "dimension")
                ELSE <<>>
        source == CASE node.backing = "column" ->
                         ("source" :> "column") @@ ("column_name" :> node.name)
                    [] node.backing = "formula" ->
                         ("source" :> "calculation") @@ ("calculation_id" :> node.id)
                    [] node.backing = "parameter" -> ("source" :> "parameter")
                    [] OTHER -> <<>>
    IN  IF node.backing = "unparseable" THEN ident
        ELSE ident @@ role @@ source @@ ("datatype" :> DatatypeOf(node.type_attr))

FieldsOf(ds) == [i \in DOMAIN ds.fields |-> TableauField(FieldKwargs(ds.fields[i]))]

\* 4.4 step 4: the category of a calculation, from the tokens of its expression.
LodTokens == {"{FIXED", "{INCLUDE", "{EXCLUDE"}
TableCalcTokens == {"RANK", "RUNNING_SUM", "WINDOW_SUM"}
ParameterTokens == {"[Parameters].[p]"}
AggregateTokens == {"SUM", "AVG", "COUNT"}
FunctionTokens == TableCalcTokens \cup AggregateTokens \cup {"LOWER"}
ConditionalTokens == {"IF", "CASE"}
FieldTokens == {"[amount]", "[qty]"} \cup ParameterTokens
KnownTokens == LodTokens \cup FunctionTokens \cup ConditionalTokens \cup FieldTokens
                   \cup {"(", ")", "/", "}", ":", "THEN", "END"}

CategoryOf(expr) ==
    LET toks == Range(expr)
    IN  CASE toks \cap LodTokens # {} -> "lod"
          [] toks \cap TableCalcTokens # {} -> "table_calc"
          [] toks \cap ParameterTokens # {} -> "parameter_based"
          [] expr # <<>> /\ toks \subseteq KnownTokens -> "simple"
          [] OTHER -> "unknown"

Min(a, b) == IF a < b THEN a ELSE b

\* 4.4 step 5: a bounded score, in tenths, that grows with the distinct
\* functions, the distinct fields past the first and conditional branching.
ComplexityScore(expr) ==
    LET toks == Range(expr)
        refs == Cardinality(toks \cap FieldTokens)
    IN  Min(10, 2 * Cardinality(toks \cap (FunctionTokens \cup LodTokens))
                + (IF refs > 1 THEN refs - 1 ELSE 0)
                + (IF toks \cap ConditionalTokens # {} THEN 3 ELSE 0))

CalculationOf(ds, node) ==
    TableauCalculation(
        ("id" :> node.id) @@ ("name" :> node.name) @@ ("datasource_id" :> ds.id)
        @@ ("expression" :> node.formula)
        @@ ("datatype" :> DatatypeOf(node.type_attr))
        @@ ("category" :> CategoryOf(node.formula))
        @@ ("complexity_score" :> ComplexityScore(node.formula)))

RECURSIVE CalculationsOfFields(_, _)
CalculationsOfFields(ds, nodes) ==
    IF nodes = <<>> THEN <<>>
    ELSE (IF Head(nodes).backing = "formula"
          THEN <<CalculationOf(ds, Head(nodes))>> ELSE <<>>)
         \o CalculationsOfFields(ds, Tail(nodes))

DatasourceOf(ds) ==
    TableauDatasource(ds.id, ds.name, ConnectionOf(ds.connection),
                      TablesOf(ds), JoinsOf(ds), FieldsOf(ds))

\* 4.6: a used field id that does not resolve within the sheet's datasource
\* becomes the explicit marker.
Unresolved == "unresolved"

FieldIdsOf(raw, dsId) ==
    UNION {Range([j \in DOMAIN raw.datasources[i].fields |->
                    raw.datasources[i].fields[j].id])
           : i \in {k \in DOMAIN raw.datasources : raw.datasources[k].id = dsId}}

SheetOf(raw, node) ==
    TableauSheet(node.id, node.name, node.datasource,
                 [i \in DOMAIN node.used |->
                    IF node.used[i] \in FieldIdsOf(raw, node.datasource)
                    THEN node.used[i] ELSE Unresolved])

\* 4.6: the assembler; a tree without a workbook node yields no workbook.
raw_spec_to_semantic_model(raw) ==
    TableauSemanticModel(
        IF raw.workbook = NoneObj THEN NoneObj
        ELSE Some(TableauWorkbook(raw.workbook[1].id, raw.workbook[1].name,
                                  raw.workbook[1].description)),
        [i \in DOMAIN raw.datasources |-> DatasourceOf(raw.datasources[i])],
        SeqFlat([i \in DOMAIN raw.datasources |->
                    CalculationsOfFields(raw.datasources[i],
                                         raw.datasources[i].fields)]),
        [i \in DOMAIN raw.sheets |-> SheetOf(raw, raw.sheets[i])])

\* ------------------------------------------------------------ the inputs
WorkbookNodes ==
    {[id |-> "wb1", name |-> "Sales", description |-> None],
     [id |-> "wb2", name |-> "Ops", description |-> "weekly"]}

ConnNodes ==
    {[sql |-> "SELECT 1", table |-> None, extract |-> FALSE],
     [sql |-> "", table |-> None, extract |-> FALSE],
     [sql |-> None, table |-> "orders", extract |-> FALSE],
     [sql |-> None, table |-> None, extract |-> TRUE],
     [sql |-> None, table |-> None, extract |-> FALSE]}

TableConn == [sql |-> None, table |-> "orders", extract |-> FALSE]

SimpleCond == <<"[l.k]", "=", "[r.k]">>
FunctionCond == <<"LOWER", "(", "[l.k]", ")", "=", "[r.k]">>
MultiCond == <<"[l.k]", "=", "[r.k]", "AND", "[l.j]", "=", "[r.j]">>

JoinNode(id, left, right, kind, cond) ==
    [id |-> id, left |-> left, right |-> right, kind |-> kind, condition |-> cond]

JoinNodes ==
    {JoinNode("j1", "orders", "line_items", "inner", SimpleCond),
     JoinNode("j2", "orders", "line_items", None, FunctionCond),
     JoinNode("j3", "line_items", "orders", "left", MultiCond),
     JoinNode("j4", "orders", "ghost", "inner", SimpleCond),
     JoinNode("j5", "ghost", "line_items", "cross", SimpleCond)}

RelationLists == {<<>>, <<"orders">>, <<"orders", "line_items">>}

FieldNode(id, backing, type_attr, aggregation, dim_marker, formula) ==
    [id |-> id, name |-> id, backing |-> backing, type_attr |-> type_attr,
     aggregation |-> aggregation, dim_marker |-> dim_marker, formula |-> formula]

FieldNodes ==
    {FieldNode("order_id", "column", "integer", None, FALSE, <<>>),
     FieldNode("region", "column", "string", None, TRUE, <<>>),
     FieldNode("amount", "column", "real", "sum", FALSE, <<>>),
     FieldNode("ratio", "formula", "real", None, FALSE,
               <<"SUM", "(", "[amount]", ")", "/", "SUM", "(", "[qty]", ")">>),
     FieldNode("bare", "formula", None, None, FALSE, <<"[amount]">>),
     FieldNode("fixed", "formula", "real", "sum", FALSE,
               <<"{FIXED", ":", "SUM", "(", "[amount]", ")", "}">>),
     FieldNode("rank", "formula", "integer", None, TRUE,
               <<"RANK", "(", "SUM", "(", "[amount]", ")", ")">>),
     FieldNode("odd", "formula", "weird", None, FALSE, <<"@@">>),
     FieldNode("p", "parameter", "string", None, FALSE, <<>>),
     FieldNode("broken", "unparseable", "real", "sum", TRUE, <<"[amount]">>)}

DatasourceNode(id, conn, relations, joins, fields) ==
    [id |-> id, name |-> id, connection |-> conn, relations |-> relations,
     joins |-> joins, fields |-> fields]

SheetLists ==
    {<<>>, <<[id |-> "s1", name |-> "Sheet 1", datasource |-> "ds1",
              used |-> <<"order_id", "nowhere">>]>>}

Tree(workbook, datasources, sheets) ==
    [workbook |-> workbook, datasources |-> datasources, sheets |-> sheets]

OptionalWorkbookNodes == {NoneObj} \cup {Some(w) : w \in WorkbookNodes}

\* Documents that vary the workbook node, the connection and the sheets;
\* these also come as bytes that are not well-formed.
TreesWorkbook ==
    {Tree(w, d, s) :
        w \in OptionalWorkbookNodes,
        d \in {<<>>} \cup {<<DatasourceNode("ds1", c, <<"orders">>, <<>>,
                                 <<FieldNode("order_id", "column", "integer",
                                             None, FALSE, <<>>)>>)>>
                            : c \in ConnNodes},
        s \in SheetLists}

\* Documents that vary the joins of one datasource and the tables it declares.
TreesJoins ==
    {Tree(w, <<DatasourceNode("ds1", TableConn, rel, js, <<>>)>>, <<>>) :
        w \in {NoneObj, Some([id |-> "wb1", name |-> "Sales", description |-> None])},
        rel \in RelationLists,
        js \in SeqsUpTo(JoinNodes, MaxJoins)}

\* Documents that vary the fields of two datasources.
TreesFields ==
    {Tree(w, <<DatasourceNode("ds1", TableConn, <<"orders">>, <<>>, f1),
               DatasourceNode("ds2", TableConn, <<"orders">>, <<>>, f2)>>, <<>>) :
        w \in {NoneObj, Some([id |-> "wb1", name |-> "Sales", description |-> None])},
        f1 \in SeqsUpTo(FieldNodes, MaxFields),
        f2 \in {<<>>} \cup {<<n>> : n \in {m \in FieldNodes : m.id \in {"ratio", "region"}}}}

Documents ==
    {[wellformed |-> TRUE, tree |-> t] :
        t \in TreesWorkbook \cup TreesJoins \cup TreesFields}
    \cup {[wellformed |-> FALSE, tree |-> t] : t \in TreesWorkbook}

\* ------------------------------------------ services/parser_service.py
Runs == {"first", "second"}

Placeholder == TableauWorkbook("unknown", "Unknown Workbook", None)

\* Step 3 without its assignment.
EnsureWorkbookSkipped(m) == m

\* Step 3 building a fresh model around the placeholder instead of assigning.
EnsureWorkbookFreshModel(m) ==
    IF m.workbook = NoneObj
    THEN TableauSemanticModel(Some(Placeholder), <<>>, <<>>, <<>>)
    ELSE m

\* Step 3 copying the datasources into a fresh model and forgetting the rest.
EnsureWorkbookDroppingCalculations(m) ==
    IF m.workbook = NoneObj
    THEN TableauSemanticModel(Some(Placeholder), m.datasources, <<>>, <<>>)
    ELSE m

\* Step 3 without its test: the workbook is overwritten whenever it runs.
EnsureWorkbookUnconditional(m) == [m EXCEPT !.workbook = Some(Placeholder)]

\* Step 3, lines 25-31: the assignment touches the workbook attribute only.
EnsureWorkbook(m) ==
    IF m.workbook = NoneObj THEN [m EXCEPT !.workbook = Some(Placeholder)] ELSE m

\* Step 1 catching the reader's exception and going on with an empty tree.
Step1Swallowing(r) ==
    /\ pc[r] = "step1"
    /\ steps' = [steps EXCEPT ![r] = Append(@, 1)]
    /\ pc' = [pc EXCEPT ![r] = "step2"]
    /\ raw_spec' = [raw_spec EXCEPT ![r] =
                      IF ReaderFails(twb_bytes) THEN Some(Tree(NoneObj, <<>>, <<>>))
                      ELSE Some(parse_twb_xml_to_raw_spec(twb_bytes))]
    /\ UNCHANGED <<twb_bytes, semantic_model, assembled, result, error, dvars, lvars>>

\* Step 1, line 20: the reader's exception is not caught, so it ends the run.
Step1(r) ==
    /\ pc[r] = "step1"
    /\ steps' = [steps EXCEPT ![r] = Append(@, 1)]
    /\ IF ReaderFails(twb_bytes)
       THEN /\ pc' = [pc EXCEPT ![r] = "failed"]
            /\ error' = [error EXCEPT ![r] = MalformedDocumentError]
            /\ UNCHANGED raw_spec
       ELSE /\ pc' = [pc EXCEPT ![r] = "step2"]
            /\ raw_spec' = [raw_spec EXCEPT ![r] = Some(parse_twb_xml_to_raw_spec(twb_bytes))]
            /\ UNCHANGED error
    /\ UNCHANGED <<twb_bytes, semantic_model, assembled, result, dvars, lvars>>

\* Step 2, line 23.
Step2(r) ==
    /\ pc[r] = "step2"
    /\ steps' = [steps EXCEPT ![r] = Append(@, 2)]
    /\ semantic_model' =
          [semantic_model EXCEPT ![r] = Some(raw_spec_to_semantic_model(raw_spec[r][1]))]
    /\ assembled' = [assembled EXCEPT ![r] = semantic_model'[r]]
    /\ pc' = [pc EXCEPT ![r] = "step3"]
    /\ UNCHANGED <<twb_bytes, raw_spec, result, error, dvars, lvars>>

\* Step 3 numbering its placeholders from state shared between the runs.
Step3SharedCounter(r) ==
    /\ pc[r] = "step3"
    /\ steps' = [steps EXCEPT ![r] = Append(@, 3)]
    /\ semantic_model' =
          [semantic_model EXCEPT ![r] =
              IF @[1].workbook # NoneObj THEN @
              ELSE Some([@[1] EXCEPT !.workbook =
                     Some(TableauWorkbook(
                        IF \E q \in Runs \ {r} : pc[q] \in {"return", "returned"}
                        THEN "unknown-2" ELSE "unknown",
                        "Unknown Workbook", None))])]
    /\ pc' = [pc EXCEPT ![r] = "return"]
    /\ UNCHANGED <<twb_bytes, raw_spec, assembled, result, error, dvars, lvars>>

\* Step 3, lines 26-31.
Step3(r) ==
    /\ pc[r] = "step3"
    /\ steps' = [steps EXCEPT ![r] = Append(@, 3)]
    /\ semantic_model' =
          [semantic_model EXCEPT ![r] = Some(EnsureWorkbook(semantic_model[r][1]))]
    /\ pc' = [pc EXCEPT ![r] = "return"]
    /\ UNCHANGED <<twb_bytes, raw_spec, assembled, result, error, dvars, lvars>>

\* Line 33.
Return(r) ==
    /\ pc[r] = "return"
    /\ result' = [result EXCEPT ![r] = semantic_model[r]]
    /\ pc' = [pc EXCEPT ![r] = "returned"]
    /\ UNCHANGED <<twb_bytes, raw_spec, semantic_model, assembled, error, steps,
                   dvars, lvars>>

IdleDomain == built = [cls |-> "none", ok |-> FALSE, kw |-> <<>>, value |-> <<>>]

IdleProject ==
    /\ project = NoneObj
    /\ files = NoneObj

IdleParser ==
    /\ twb_bytes = [wellformed |-> FALSE, tree |-> Tree(NoneObj, <<>>, <<>>)]
    /\ pc = [r \in Runs |-> "idle"]
    /\ raw_spec = [r \in Runs |-> NoneObj]
    /\ semantic_model = [r \in Runs |-> NoneObj]
    /\ assembled = [r \in Runs |-> NoneObj]
    /\ result = [r \in Runs |-> NoneObj]
    /\ error = [r \in Runs |-> None]
    /\ steps = [r \in Runs |-> <<>>]

Init ==
    /\ twb_bytes \in Documents
    /\ pc = [r \in Runs |-> "step1"]
    /\ raw_spec = [r \in Runs |-> NoneObj]
    /\ semantic_model = [r \in Runs |-> NoneObj]
    /\ assembled = [r \in Runs |-> NoneObj]
    /\ result = [r \in Runs |-> NoneObj]
    /\ error = [r \in Runs |-> None]
    /\ steps = [r \in Runs |-> <<>>]
    /\ IdleDomain
    /\ IdleProject

Next == \E r \in Runs : Step1(r) \/ Step2(r) \/ Step3(r) \/ Return(r)

Spec == Init /\ [][Next]_vars

\* --------------------------------------------- constructing domain objects
\* A caller may build any domain object directly: the constructor validates
\* the keywords and either yields the object or raises.
Absent == "<absent>"

Opt(k, v) == IF v = Absent THEN <<>> ELSE (k :> v)

ConnectionKwargs ==
    {Opt("type", t) @@ Opt("raw_sql", q) @@ Opt("table", tb) @@ Opt("dialect", d) :
        t \in ConnectionTypes \cup {Absent, "sql"},
        q \in {Absent, None, "", "SELECT 1"},
        tb \in {Absent, "orders"},
        d \in {Absent, "postgres"}}

ScoreChoices == (0 - 2)..MaxScoreTenths

CalculationKwargs ==
    {(IF withScore THEN "complexity_score" :> sc ELSE <<>>)
        @@ Opt("id", i) @@ ("name" :> "ratio") @@ ("datasource_id" :> "ds1")
        @@ ("expression" :> <<"[amount]">>) @@ Opt("category", c) :
        withScore \in BOOLEAN, sc \in ScoreChoices,
        i \in {Absent, "c1"},
        c \in {Absent, "simple", "lod", "nested"}}

FieldKwargsChoices ==
    {("id" :> "f1") @@ Opt("name", n) @@ Opt("role", r) @@ Opt("datatype", dt)
        @@ Opt("aggregation", a) @@ Opt("source", src) @@ Opt("calculation_id", c) :
        n \in {Absent, "amount"},
        r \in Roles \cup {Absent, "metric"},
        dt \in {Absent, "number", "text"},
        a \in {Absent, None, "sum"},
        src \in {Absent, "column", "calculation"},
        c \in {Absent, "c1"}}

\* The outcome of a constructor call: the object, or no object when pydantic
\* raises its ValidationError.
Built(cls, valid, kw, value) ==
    [cls |-> cls, ok |-> valid, kw |-> kw,
     value |-> IF valid THEN Some(value) ELSE NoneObj]

NewTableauConnection(kw) ==
    /\ built' = Built("TableauConnection", ValidTableauConnection(kw), kw,
                      TableauConnection(kw))
    /\ UNCHANGED <<pvars, lvars>>

NewTableauCalculation(kw) ==
    /\ built' = Built("TableauCalculation", ValidTableauCalculation(kw), kw,
                      IF ValidTableauCalculation(kw) THEN TableauCalculation(kw)
                      ELSE <<>>)
    /\ UNCHANGED <<pvars, lvars>>

NewTableauField(kw) ==
    /\ built' = Built("TableauField", ValidTableauField(kw), kw,
                      IF ValidTableauField(kw) THEN TableauField(kw) ELSE <<>>)
    /\ UNCHANGED <<pvars, lvars>>

JoinKwargs ==
    {("id" :> "j1") @@ ("left_table_id" :> "orders") @@ Opt("right_table_id", rt)
        @@ ("condition" :> SimpleCond) @@ Opt("join_type", jt) :
        rt \in {Absent, "line_items"},
        jt \in JoinTypes \cup {Absent, "cross"}}

NewTableauJoin(kw, review) ==
    /\ built' = Built("TableauJoin", ValidTableauJoin(kw), kw,
                      IF ValidTableauJoin(kw)
                      THEN TableauJoin(IF review = Absent THEN kw
                                       ELSE kw @@ ("needs_manual_review" :> (review = "True")))
                      ELSE <<>>)
    /\ UNCHANGED <<pvars, lvars>>

NewTableauSemanticModel(workbook) ==
    /\ built' = Built("TableauSemanticModel", ValidTableauSemanticModel(workbook),
                      "workbook" :> workbook,
                      TableauSemanticModel(workbook, <<>>, <<>>, <<>>))
    /\ UNCHANGED <<pvars, lvars>>

InitDomain == IdleParser /\ IdleDomain /\ IdleProject

NextDomain ==
    \/ \E kw \in ConnectionKwargs : NewTableauConnection(kw)
    \/ \E kw \in CalculationKwargs : NewTableauCalculation(kw)
    \/ \E kw \in FieldKwargsChoices : NewTableauField(kw)
    \/ \E kw \in JoinKwargs, review \in {Absent, "True", "False"} :
          NewTableauJoin(kw, review)
    \/ \E w \in {NoneObj} \cup {Some(TableauWorkbook(n.id, n.name, n.description))
                                 : n \in WorkbookNodes} :
          NewTableauSemanticModel(w)

SpecDomain == InitDomain /\ [][NextDomain]_vars

\* -------------------------------------------- domain/lookml_project.py
LookMLFile(filename, content) == [filename |-> filename, content |-> content]

LookMLProject(model_files, view_files, dashboard_files) ==
    [model_files |-> model_files, view_files |-> view_files,
     dashboard_files |-> dashboard_files]

all_files_views_last(self) ==
    self.model_files \o self.dashboard_files \o self.view_files

all_files(self) == self.model_files \o self.view_files \o self.dashboard_files

LookMLFiles ==
    {LookMLFile("sales.model.lkml", "connection: c"),
     LookMLFile("orders.view.lkml", "view: orders")}

FileLists == SeqsUpTo(LookMLFiles, MaxFiles)

NewLookMLProject ==
    /\ project = NoneObj
    /\ \E m \in FileLists, v \in FileLists, d \in FileLists :
          project' = Some(LookMLProject(m, v, d))
    /\ UNCHANGED <<files, pvars, dvars>>

AllFiles ==
    /\ project # NoneObj
    /\ files = NoneObj
    /\ files' = Some(all_files(project[1]))
    /\ UNCHANGED <<project, pvars, dvars>>

InitProject == IdleParser /\ IdleDomain /\ IdleProject

NextProject == NewLookMLProject \/ AllFiles

SpecProject == InitProject /\ [][NextProject]_vars

\* ================================================================ claims
Terminal == {"returned", "failed"}

TableIds(ds) == {ds.tables[i].id : i \in DOMAIN ds.tables}

C2_ReaderFailureAborts ==
    \A r \in Runs :
        /\ ReaderFails(twb_bytes) =>
              /\ pc[r] \in {"step1", "failed"}
              /\ 2 \notin Range(steps[r]) /\ 3 \notin Range(steps[r])
              /\ raw_spec[r] = NoneObj /\ semantic_model[r] = NoneObj
              /\ result[r] = NoneObj
        /\ pc[r] = "failed" =>
              /\ ReaderFails(twb_bytes)
              /\ error[r] = MalformedDocumentError
              /\ result[r] = NoneObj
        /\ pc[r] = "returned" =>
              /\ error[r] = None
              /\ result[r] # NoneObj
              /\ result[r][1].workbook # NoneObj
        /\ pc[r] \notin Terminal =>
              /\ result[r] = NoneObj /\ error[r] = None
              /\ ENABLED (Step1(r) \/ Step2(r) \/ Step3(r) \/ Return(r))

C2_Witness ==
    \E r \in Runs :
        /\ pc[r] = "failed"
        /\ steps[r] = <<1>>
        /\ error[r] = MalformedDocumentError
        /\ twb_bytes.tree.datasources # <<>>

\* C3: all_files() is model_files ++ view_files ++ dashboard_files: its length
\* is the sum of the three lengths, the model files come first, then the view
\* files, then the dashboard files, each list in its own order.
C3_AllFilesConcatenation ==
    files # NoneObj =>
        LET m == project[1].model_files
            v == project[1].view_files
            d == project[1].dashboard_files
            a == files[1]
        IN  /\ Len(a) = Len(m) + Len(v) + Len(d)
            /\ \A i \in 1..Len(m) : a[i] = m[i]
            /\ \A i \in 1..Len(v) : a[Len(m) + i] = v[i]
            /\ \A i \in 1..Len(d) : a[Len(m) + Len(v) + i] = d[i]

C3_Witness ==
    /\ files # NoneObj
    /\ Len(project[1].model_files) = 1
    /\ Len(project[1].view_files) = 2
    /\ Len(project[1].dashboard_files) = 2
    /\ project[1].view_files # project[1].dashboard_files
    /\ project[1].view_files[1] # project[1].view_files[2]
    /\ Len(files[1]) = 5

C6_CustomSqlHasRawSql ==
    (built.cls = "TableauConnection" /\ built.ok
        /\ built.value[1].type = "custom_sql")
        => built.value[1].raw_sql \notin {None, ""}

\* C7: a Calculation has a complexity_score within [0, 1] (0 to 10 tenths); no
\* Calculation with a score outside can be constructed, and one built without
\* an explicit score has score 0.
C7_ScoreWithinUnitInterval ==
    (built.cls = "TableauCalculation" /\ built.ok) =>
        /\ built.value[1].complexity_score >= 0
        /\ built.value[1].complexity_score <= 10
        /\ "complexity_score" \notin DOMAIN built.kw
              => built.value[1].complexity_score = 0

\* C8: a field built without a role has role "unknown", never "dimension" or
\* "measure"; a field built with no classification input at all has role,
\* datatype and source "unknown" and no aggregation.
C8_UnknownDefaults ==
    (built.cls = "TableauField" /\ built.ok) =>
        /\ "role" \notin DOMAIN built.kw => built.value[1].role = "unknown"
        /\ DOMAIN built.kw \cap {"role", "datatype", "source", "aggregation"} = {}
              => /\ built.value[1].role = "unknown"
                 /\ built.value[1].datatype = "unknown"
                 /\ built.value[1].source = "unknown"
                 /\ built.value[1].aggregation = None

C8_Witness ==
    /\ built.cls = "TableauField"
    /\ built.ok
    /\ DOMAIN built.kw = {"id", "name"}
    /\ built.value[1].role = "unknown"

C10_DefaultStepFrame ==
    \A r \in Runs :
        pc[r] \in {"return", "returned"} =>
            LET a == assembled[r][1]
                m == semantic_model[r][1]
            IN  /\ a.workbook # NoneObj => m = a
                /\ a.workbook = NoneObj =>
                      /\ m.schema_version = a.schema_version
                      /\ m.datasources = a.datasources
                      /\ m.calculations = a.calculations
                      /\ m.sheets = a.sheets
                /\ pc[r] = "returned" => result[r] = Some(m)

C10_Witness ==
    \E r \in Runs :
        /\ pc[r] = "returned"
        /\ assembled[r][1].workbook # NoneObj
        /\ assembled[r][1].workbook[1].description = "weekly"
        /\ assembled[r][1].datasources # <<>>
        /\ assembled[r][1].sheets # <<>>
        /\ result[r] = assembled[r]

====
